---- MODULE Spec2Model ----
(***************************************************************************)
(* Room lifecycle, cleaning-session and access-gate model of the hotel     *)
(* housekeeping server (server/routes.ts, server/storage.ts,               *)
(* server/replitAuth.ts, shared/schema.ts).                                *)
(*                                                                         *)
(* Every route handler is an async function: each `await storage.x()` is   *)
(* one atomic database statement, and the synchronous code that follows a  *)
(* resumed await (broadcast, res.json) runs as one step of the event loop. *)
(* A request therefore advances through a program counter, and requests on *)
(* different connections interleave between their statements.              *)
(***************************************************************************)
EXTENDS Integers, Sequences, FiniteSets, TLC

VARIABLES users, rooms, cleaningSessions, problemReports, checklistCompletions,
          reqs, devOverride, passport, shadow, now, timeline,
          wsClients, sockets, hook

\* users            rows of the users table, by id
\* rooms            rows of the rooms table, by id
\* cleaningSessions rows of cleaning_sessions in insertion order; the id is the index
\* problemReports   number of rows of problem_reports
\* checklistCompletions rows of checklist_completions in insertion order
\* reqs             per client connection, the request it has outstanding
\* devOverride      NODE_ENV === "development" || ALLOW_DEV_ROLE_OVERRIDE === "true"
\* passport         subjects (claims.sub) of the login sessions passport holds
\* shadow           the users table of a second run of the same logins that
\*                  differs from this one only in the role claims presented
\* now              the wall clock, new Date().getTime(), in milliseconds
\* timeline         history of each session row: the instants its status last
\*                  went from active to paused and from paused to active
\* wsClients        the server's set of WebSocket clients
\* sockets          per WebSocket: its readyState, whether its transport has
\*                  broken, whether a write to it has failed, and the
\*                  messages its peer has received
\* hook             the client's useWebSocket hook: its socket, its refs
vars == <<users, rooms, cleaningSessions, problemReports, checklistCompletions,
          reqs, devOverride, passport, shadow, now, timeline,
          wsClients, sockets, hook>>

\* what the WebSocket server and the client's hook leave alone
storeVars == <<users, rooms, cleaningSessions, timeline, problemReports,
               checklistCompletions, reqs, devOverride, passport, shadow, now>>

\* what the room and session routes leave alone
authVars == <<devOverride, passport, shadow, checklistCompletions, now, wsClients, hook>>

\* ------------------------------------------------------------------ bounds
MaxSessions == 2        \* rows the cleaning_sessions table may hold
MaxReports == 1         \* rows the problem_reports table may hold
MaxCompletions == 1     \* rows the checklist_completions table may hold
MaxTicks == 2           \* advances of the wall clock
MaxEvents == 2          \* messages a WebSocket's peer may have received

\* the wall clock advances in steps of half a second
TickMs == 500

\* client connections; each has at most one request outstanding
Conns == {"c1", "c2"}

\* the WebSocket objects the server may be handed, each connecting once
Sockets == {"w1", "w2"}

\* ------------------------------------------------------------- shared/schema
roomStatusEnum == {"dirty", "cleaning", "inspection", "clean", "occupied"}

userRoleEnum == {"manager", "housekeeper", "supervisor"}

\* z.enum([...]) of PATCH /api/rooms/:id/status
statusSchema == {"dirty", "clean", "occupied", "cleaning", "inspection", "approved"}

\* a request body value that is in neither enumeration
OtherStatus == "maintenance"

RoomIds == {"101"}
NoRoom == "999"                     \* an id no row of rooms has

UserIds == {"maria", "ana", "supA"}
GhostId == "ghost"                  \* a session subject with no row in users
NoSub == ""

NoUser == [email |-> "", role |-> ""]
NoSession == 0
NoTime == -1                        \* null in a timestamp or integer column
Undefined == [status |-> "", assignedTo |-> "", updatedAt |-> NoTime]

\* ------------------------------------------------------ request credentials
\* sess: what passport and the stored token say about the request
\*   "anon"     req.isAuthenticated() is false
\*   "fresh"    now <= expires_at
\*   "stale"    token expired and no refresh token
\*   "renewed"  token expired, refreshTokenGrant succeeds
\*   "revoked"  token expired, refreshTokenGrant throws
Cred(sub, sess, roleClaim) == [sub |-> sub, sess |-> sess, roleClaim |-> roleClaim]

Anon == Cred(NoSub, "anon", "")

\* a failed refresh is let through
isAuthenticatedLax(cred) ==
    IF cred.sess = "anon" THEN "401"
    ELSE IF cred.sess = "stale" THEN "401"
    ELSE "next"

isAuthenticated(cred) ==
    IF cred.sess = "anon" THEN "401"
    ELSE IF cred.sess = "fresh" THEN "next"
    ELSE IF cred.sess = "stale" THEN "401"
    ELSE IF cred.sess = "renewed" THEN "next"
    ELSE "401"

getUser(store, id) == IF id \in DOMAIN store THEN store[id] ELSE NoUser

\* the role list is not consulted
requireRoleAnyUser(allowedRoles, cred, store) ==
    IF cred.sub = NoSub THEN "401"
    ELSE IF getUser(store, cred.sub) = NoUser THEN "403"
    ELSE "next"

requireRole(allowedRoles, cred, store) ==
    IF cred.sub = NoSub THEN "401"
    ELSE LET user == getUser(store, cred.sub)
         IN IF user = NoUser \/ user.role \notin allowedRoles THEN "403"
            ELSE "next"

\* ------------------------------------------------------------------- storage
\* UPDATE rooms SET status = $2 WHERE id = $1 RETURNING *
\* The column type is the room_status enum: a value outside it is rejected by
\* the database and the statement throws; no matching row returns undefined.
\* the column is plain text
updateRoomStatusText(rs, roomId, status) ==
    IF roomId \notin DOMAIN rs
    THEN [threw |-> FALSE, rooms |-> rs, room |-> Undefined]
    ELSE [threw |-> FALSE,
          rooms |-> [rs EXCEPT ![roomId].status = status, ![roomId].updatedAt = now],
          room |-> [rs[roomId] EXCEPT !.status = status, !.updatedAt = now]]

\* the column's enumeration lists the values of the route's schema
updateRoomStatusWide(rs, roomId, status) ==
    IF status \notin statusSchema
    THEN [threw |-> TRUE, rooms |-> rs, room |-> Undefined]
    ELSE updateRoomStatusText(rs, roomId, status)

\* the statement returns the row as it was before the update
updateRoomStatusStale(rs, roomId, status) ==
    IF status \notin roomStatusEnum
    THEN [threw |-> TRUE, rooms |-> rs, room |-> Undefined]
    ELSE IF roomId \notin DOMAIN rs
    THEN [threw |-> FALSE, rooms |-> rs, room |-> Undefined]
    ELSE [threw |-> FALSE,
          rooms |-> [rs EXCEPT ![roomId].status = status, ![roomId].updatedAt = now],
          room |-> rs[roomId]]

\* the statement has no WHERE clause
updateRoomStatusAll(rs, roomId, status) ==
    IF status \notin roomStatusEnum
    THEN [threw |-> TRUE, rooms |-> rs, room |-> Undefined]
    ELSE IF roomId \notin DOMAIN rs
    THEN [threw |-> FALSE, rooms |-> rs, room |-> Undefined]
    ELSE LET all == [r \in DOMAIN rs |->
                        [rs[r] EXCEPT !.status = status, !.updatedAt = now]]
         IN [threw |-> FALSE, rooms |-> all, room |-> all[roomId]]

\* the statement writes the whole row anew
updateRoomStatusReset(rs, roomId, status) ==
    IF status \notin roomStatusEnum
    THEN [threw |-> TRUE, rooms |-> rs, room |-> Undefined]
    ELSE IF roomId \notin DOMAIN rs
    THEN [threw |-> FALSE, rooms |-> rs, room |-> Undefined]
    ELSE LET updated == [status |-> status, assignedTo |-> "", updatedAt |-> now]
         IN [threw |-> FALSE,
             rooms |-> [rs EXCEPT ![roomId] = updated],
             room |-> updated]

\* .set({ status, updatedAt: new Date() })
updateRoomStatus(rs, roomId, status) ==
    IF status \notin roomStatusEnum
    THEN [threw |-> TRUE, rooms |-> rs, room |-> Undefined]
    ELSE IF roomId \notin DOMAIN rs
    THEN [threw |-> FALSE, rooms |-> rs, room |-> Undefined]
    ELSE LET updated == [rs[roomId] EXCEPT !.status = status, !.updatedAt = now]
         IN [threw |-> FALSE,
             rooms |-> [rs EXCEPT ![roomId] = updated],
             room |-> updated]

\* SELECT * FROM rooms
getAllRooms(rs) == DOMAIN rs

\* SELECT * FROM rooms WHERE assigned_to = $1
getRoomsByAssignedUser(rs, userId) == {r \in DOMAIN rs : rs[r].assignedTo = userId}

\* INSERT INTO cleaning_sessions ... RETURNING *
\* room_id and housekeeper_id are foreign keys: an unknown id makes it throw.
startCleaningSession(ss, rs, us, sessionData) ==
    IF sessionData.roomId \notin DOMAIN rs \/ getUser(us, sessionData.housekeeperId) = NoUser
    THEN [threw |-> TRUE, sessions |-> ss, id |-> NoSession]
    ELSE [threw |-> FALSE, sessions |-> Append(ss, sessionData), id |-> Len(ss) + 1]

getActiveCleaningSession(ss, roomId) ==
    {i \in 1..Len(ss) : ss[i].roomId = roomId /\ ss[i].status \in {"active", "paused"}}

\* A request body of the session routes: keys are the properties it carries.
Body(keys, status, startTime, endTime, totalTime) ==
    [keys |-> keys, status |-> status, startTime |-> startTime,
     endTime |-> endTime, totalTime |-> totalTime]

NoBody == Body({}, "", NoTime, NoTime, NoTime)

\* a row that turns active again counts one more second of pause
SetCounting(row, updates) ==
    [row EXCEPT !.status = IF "status" \in updates.keys THEN updates.status ELSE @,
                !.endTime = IF "endTime" \in updates.keys THEN updates.endTime ELSE @,
                !.totalTime = IF "totalTime" \in updates.keys THEN updates.totalTime ELSE @,
                !.pausedTime = IF row.status = "paused" /\ updates.status = "active"
                               THEN @ + 1 ELSE @]

\* .set(updates): the columns the object names take its values
Set(row, updates) ==
    [row EXCEPT !.status = IF "status" \in updates.keys THEN updates.status ELSE @,
                !.startTime = IF "startTime" \in updates.keys THEN updates.startTime ELSE @,
                !.endTime = IF "endTime" \in updates.keys THEN updates.endTime ELSE @,
                !.totalTime = IF "totalTime" \in updates.keys THEN updates.totalTime ELSE @]

\* UPDATE cleaning_sessions SET ... WHERE id = $1 RETURNING *
updateCleaningSession(ss, sessionId, updates) ==
    IF sessionId \in 1..Len(ss)
    THEN [sessions |-> [ss EXCEPT ![sessionId] = Set(@, updates)], id |-> sessionId]
    ELSE [sessions |-> ss, id |-> NoSession]

\* ------------------------------------------------------------------ requests
\* A request record is the handler's frame: its inputs, its position, what the
\* awaited statements returned and the response once sent.  writes counts the
\* rows the request has inserted or updated, events holds what it broadcast,
\* at is the client's clock when it sent the request, filter and rows are the
\* query GET /api/rooms chose and the ids of the rooms it returned,
\* hadOpen and was record the room's open session and status on arrival,
\* overlap whether another connection had a request of the same route for the
\* same room in flight at that moment.
NoEvent == <<>>

Idle == [kind |-> "idle", cred |-> Anon, roomId |-> "", arg |-> "", sid |-> NoSession,
         pc |-> "idle", result |-> "", room |-> Undefined, body |-> NoBody,
         at |-> NoTime, filter |-> "", rows |-> {},
         writes |-> 0, events |-> NoEvent, hadOpen |-> FALSE, was |-> "",
         overlap |-> FALSE]

Event(type, action, roomId, status, sid) ==
    [type |-> type, action |-> action, roomId |-> roomId, status |-> status, sid |-> sid]

\* broadcast(message): one event handed to the live connections
broadcast(req, message) == Append(req.events, message)

\* A WebSocket of the ws library.  readyState is CONNECTING until the server's
\* 'connection' event, then OPEN, CLOSING, CLOSED.  send() on an open socket
\* does not throw: a write that fails is reported later by the 'error' event.
NoSocket == [readyState |-> "CONNECTING", broken |-> FALSE, failed |-> FALSE,
             inbox |-> <<>>]

\* client.send(messageStr)
send(sock, message) ==
    IF sock.broken THEN [sock EXCEPT !.failed = TRUE]
    ELSE [sock EXCEPT !.inbox = Append(@, message)]

\* every member is written to, whatever its readyState
forEachMember(clients, socks, message) ==
    [s \in DOMAIN socks |->
        IF s \in clients THEN send(socks[s], message) ELSE socks[s]]

\* the loop ends at the first write that fails
forEachUntilFailure(clients, socks, message) ==
    [s \in DOMAIN socks |->
        IF s \in clients /\ socks[s].readyState = "OPEN"
        THEN IF \E f \in clients : socks[f].readyState = "OPEN" /\ socks[f].broken
             THEN [socks[s] EXCEPT !.failed = socks[s].broken]
             ELSE send(socks[s], message)
        ELSE socks[s]]

\* wsClients.forEach(client => { if (client.readyState === WebSocket.OPEN) client.send(...) })
forEach(clients, socks, message) ==
    [s \in DOMAIN socks |->
        IF s \in clients /\ socks[s].readyState = "OPEN"
        THEN send(socks[s], message)
        ELSE socks[s]]

\* the handler forgets to delete
onCloseKeep(clients, s) == clients

\* ws.on('close', () => wsClients.delete(ws))
onClose(clients, s) == clients \ {s}

\* the handler only logs
onErrorLog(clients, s) == clients

\* ws.on('error', () => wsClients.delete(ws))
onError(clients, s) == clients \ {s}

\* The client's useWebSocket hook: the socket it holds, reconnectAttempts,
\* whether reconnectTimeoutRef holds a pending timer, whether the component
\* is mounted, the delays of the timers set since the last open, and the
\* query keys its messages have invalidated.  useEffect has called connect().
HookInit == [socket |-> "connecting", reconnectAttempts |-> 0, timer |-> FALSE,
             mounted |-> TRUE, delays |-> <<>>, invalid |-> {}]

maxReconnectAttempts == 5

reconnectDelay == 3000

\* connect(): wsRef.current = new WebSocket(wsUrl); the timer that called it
\* has fired
connect(h) == [h EXCEPT !.socket = "connecting", !.timer = FALSE]

\* onopen: reconnectAttempts.current = 0
onopen(h) == [h EXCEPT !.socket = "open", !.reconnectAttempts = 0, !.delays = <<>>]

\* onclose: unless the close is normal (1000) or the attempts are used up,
\* count an attempt and set a timer of reconnectDelay that calls connect()
onclose(h, code) ==
    LET closed == [h EXCEPT !.socket = "closed"]
    IN IF code # 1000 /\ h.reconnectAttempts < maxReconnectAttempts
       THEN [closed EXCEPT !.reconnectAttempts = @ + 1, !.timer = TRUE,
                           !.delays = Append(@, reconnectDelay)]
       ELSE closed

\* the query keys handleWebSocketMessage invalidates for a message type
QueryKeys(type) ==
    IF type = "room_status_update" THEN {"/api/rooms"}
    ELSE IF type = "timer_update" THEN {"/api/cleaning-sessions"}
    ELSE IF type = "checklist_update" THEN {"/api/checklist-completions"}
    ELSE IF type = "problem_report" THEN {"/api/problem-reports", "/api/rooms"}
    ELSE {}

handleWebSocketMessage(h, type) == [h EXCEPT !.invalid = @ \cup QueryKeys(type)]

\* the effect's cleanup: clearTimeout, close(1000, ...) of the socket held.
\* A socket that was open closes with 1000; one still connecting is aborted.
cleanup(h) ==
    [h EXCEPT !.mounted = FALSE, !.timer = FALSE,
              !.socket = IF @ = "open" THEN "closing"
                         ELSE IF @ = "connecting" THEN "aborting"
                         ELSE @]

InFlight(c) == reqs[c].pc \notin {"idle", "done"}

Arrive(c, kind, cred, roomId, arg, sid, pc) ==
    [Idle EXCEPT !.kind = kind, !.cred = cred, !.roomId = roomId, !.arg = arg,
                 !.sid = sid, !.pc = pc, !.at = now,
                 !.hadOpen = (getActiveCleaningSession(cleaningSessions, roomId) # {}),
                 !.was = IF roomId \in DOMAIN rooms THEN rooms[roomId].status ELSE "",
                 !.overlap = \E d \in Conns \ {c} :
                                InFlight(d) /\ reqs[d].kind = kind /\ reqs[d].roomId = roomId]

Respond(req, code) == [req EXCEPT !.pc = "done", !.result = code]

Free(c) == reqs[c].pc \in {"idle", "done"}

\* rows of rooms the statement matched (0 or 1)
Changed(rs, id) == IF id \in DOMAIN rs THEN 1 ELSE 0

Init ==
    /\ users = [u \in UserIds |->
                  IF u = "maria" THEN [email |-> "maria@hotel.com", role |-> "manager"]
                  ELSE IF u = "ana" THEN [email |-> "ana@hotel.com", role |-> "housekeeper"]
                  ELSE [email |-> "supervisor@hotel.com", role |-> "supervisor"]]
    /\ rooms = [r \in RoomIds |-> [status |-> "dirty", assignedTo |-> "ana",
                                   updatedAt |-> 0]]
    /\ cleaningSessions = <<>>
    /\ problemReports = 0
    /\ reqs = [c \in Conns |-> Idle]
    /\ checklistCompletions = <<>>
    /\ devOverride = FALSE
    /\ passport = {}
    /\ shadow = users
    /\ now = 0
    /\ timeline = <<>>
    /\ wsClients = {}
    /\ sockets = [s \in Sockets |-> NoSocket]
    /\ hook = HookInit

\* new Date() gives a later instant
Tick ==
    /\ now < MaxTicks * TickMs
    /\ now' = now + TickMs
    /\ UNCHANGED <<users, rooms, cleaningSessions, timeline, problemReports, reqs,
                   devOverride, passport, shadow, checklistCompletions,
                   wsClients, sockets, hook>>

\* ---------------------------------------------- PATCH /api/rooms/:id/status
\* app.use('/api', isAuthenticated), requireRole("manager", "supervisor"),
\* then statusSchema.parse(req.body) and the call of updateRoomStatus.
\* the change is announced before the body is validated
StatusRequestAnnounced(c, cred, id, status) ==
    /\ Free(c)
    /\ LET req == Arrive(c, "status", cred, id, status, NoSession, "update")
           gate == IF isAuthenticated(cred) # "next" THEN isAuthenticated(cred)
                   ELSE requireRole({"manager", "supervisor"}, cred, users)
           msg == Event("room_status_update", "", id, status, NoSession)
           bad == gate = "next" /\ status \notin statusSchema
       IN /\ reqs' = [reqs EXCEPT ![c] =
                        IF gate # "next" THEN Respond(req, gate)
                        ELSE IF bad
                        THEN Respond([req EXCEPT !.events = broadcast(req, msg)], "400")
                        ELSE req]
          /\ sockets' = IF bad THEN forEach(wsClients, sockets, msg) ELSE sockets
    /\ UNCHANGED <<users, rooms, cleaningSessions, timeline, problemReports, authVars>>

\* the body is not validated
StatusRequestUnparsed(c, cred, id, status) ==
    /\ Free(c)
    /\ LET req == Arrive(c, "status", cred, id, status, NoSession, "update")
           gate == IF isAuthenticated(cred) # "next" THEN isAuthenticated(cred)
                   ELSE requireRole({"manager", "supervisor"}, cred, users)
       IN reqs' = [reqs EXCEPT ![c] = IF gate # "next" THEN Respond(req, gate) ELSE req]
    /\ UNCHANGED <<users, rooms, cleaningSessions, timeline, problemReports, authVars, sockets>>

StatusRequest(c, cred, id, status) ==
    /\ Free(c)
    /\ LET req == Arrive(c, "status", cred, id, status, NoSession, "update")
           gate == IF isAuthenticated(cred) # "next" THEN isAuthenticated(cred)
                   ELSE requireRole({"manager", "supervisor"}, cred, users)
       IN reqs' = [reqs EXCEPT ![c] =
                     IF gate # "next" THEN Respond(req, gate)
                     ELSE IF status \notin statusSchema THEN Respond(req, "400")
                     ELSE req]
    /\ UNCHANGED <<users, rooms, cleaningSessions, timeline, problemReports, authVars, sockets>>

StatusUpdate(c) ==
    /\ reqs[c].kind = "status" /\ reqs[c].pc = "update"
    /\ LET req == reqs[c]
           upd == updateRoomStatus(rooms, req.roomId, req.arg)
       IN /\ rooms' = upd.rooms
          /\ reqs' = [reqs EXCEPT ![c] =
                        IF upd.threw THEN Respond(req, "500")
                        ELSE [req EXCEPT !.pc = "broadcast", !.room = upd.room,
                                         !.writes = @ + Changed(rooms, req.roomId)]]
    /\ UNCHANGED <<users, cleaningSessions, timeline, problemReports, authVars, sockets>>

StatusBroadcast(c) ==
    /\ reqs[c].kind = "status" /\ reqs[c].pc = "broadcast"
    /\ LET req == reqs[c]
           msg == Event("room_status_update", "", req.roomId, req.arg, NoSession)
       IN /\ sockets' = forEach(wsClients, sockets, msg)
          /\ reqs' = [reqs EXCEPT ![c] =
                        Respond([req EXCEPT !.events = broadcast(req, msg)], "200")]
    /\ UNCHANGED <<users, rooms, cleaningSessions, timeline, problemReports, authVars>>

\* ------------------------------------------------------------ GET /api/rooms
\* userId = req.user?.claims?.sub; the query string may carry assignedTo.
AllRoomsQuery == "*"

ListRequest(c, cred, assignedTo) ==
    /\ Free(c)
    /\ LET req == Arrive(c, "list", cred, "", assignedTo, NoSession, "user")
       IN reqs' = [reqs EXCEPT ![c] =
                     IF isAuthenticated(cred) # "next"
                     THEN Respond(req, isAuthenticated(cred))
                     ELSE IF cred.sub = NoSub THEN Respond(req, "401")
                     ELSE req]
    /\ UNCHANGED <<users, rooms, cleaningSessions, timeline, problemReports, authVars, sockets>>

\* the assignedTo of the query string is honoured for every role
ListUserFiltered(c) ==
    /\ reqs[c].kind = "list" /\ reqs[c].pc = "user"
    /\ LET req == reqs[c]
           currentUser == getUser(users, req.cred.sub)
       IN reqs' = [reqs EXCEPT ![c] =
                     IF currentUser = NoUser THEN Respond(req, "401")
                     ELSE [req EXCEPT !.pc = "rooms",
                                      !.filter = IF req.arg # "" THEN req.arg
                                                 ELSE IF currentUser.role = "manager"
                                                 THEN AllRoomsQuery
                                                 ELSE req.cred.sub]]
    /\ UNCHANGED <<users, rooms, cleaningSessions, timeline, problemReports, authVars, sockets>>

\* currentUser = await storage.getUser(userId), then the choice of the query
ListUser(c) ==
    /\ reqs[c].kind = "list" /\ reqs[c].pc = "user"
    /\ LET req == reqs[c]
           currentUser == getUser(users, req.cred.sub)
       IN reqs' = [reqs EXCEPT ![c] =
                     IF currentUser = NoUser THEN Respond(req, "401")
                     ELSE [req EXCEPT !.pc = "rooms",
                                      !.filter = IF currentUser.role = "manager"
                                                 THEN IF req.arg # "" THEN req.arg
                                                      ELSE AllRoomsQuery
                                                 ELSE req.cred.sub]]
    /\ UNCHANGED <<users, rooms, cleaningSessions, timeline, problemReports, authVars, sockets>>

\* rooms = await storage.getAllRooms() or getRoomsByAssignedUser(...); res.json(rooms)
ListRooms(c) ==
    /\ reqs[c].kind = "list" /\ reqs[c].pc = "rooms"
    /\ LET req == reqs[c]
           found == IF req.filter = AllRoomsQuery THEN getAllRooms(rooms)
                    ELSE getRoomsByAssignedUser(rooms, req.filter)
       IN reqs' = [reqs EXCEPT ![c] = Respond([req EXCEPT !.rows = found], "200")]
    /\ UNCHANGED <<users, rooms, cleaningSessions, timeline, problemReports, authVars, sockets>>

\* ------------------------------------------------ POST /api/cleaning-sessions
\* insertCleaningSessionSchema.parse(req.body): roomId, housekeeperId and
\* startTime are required, status is optional text (the client sends "active").
\* The columns the body leaves out take their defaults: paused_time 0, the
\* others null.
\* the server stamps the row with its own clock
SessionDataStamped(roomId, housekeeperId, body) ==
    [roomId |-> roomId, housekeeperId |-> housekeeperId, status |-> body.status,
     startTime |-> now, endTime |-> NoTime, pausedTime |-> 0,
     totalTime |-> NoTime]

SessionData(roomId, housekeeperId, body) ==
    [roomId |-> roomId, housekeeperId |-> housekeeperId, status |-> body.status,
     startTime |-> body.startTime, endTime |-> NoTime, pausedTime |-> 0,
     totalTime |-> NoTime]

\* startCleaningMutation: startTime: new Date().toISOString(), status: "active"
StartBody == Body({"status", "startTime"}, "active", now, NoTime, NoTime)

\* history of a row that was never paused
NoHistory == [pausedAt |-> NoTime, resumedAt |-> NoTime]

\* sessions already stored plus those that requests in flight will still insert
Pending == Cardinality({c \in Conns : reqs[c].kind = "start" /\ reqs[c].pc = "insert"})

StartRequest(c, cred, roomId) ==
    /\ Free(c)
    /\ Len(cleaningSessions) + Pending < MaxSessions
    /\ LET req == [Arrive(c, "start", cred, roomId, "active", NoSession, "insert")
                      EXCEPT !.body = StartBody]
       IN reqs' = [reqs EXCEPT ![c] =
                     IF isAuthenticated(cred) # "next"
                     THEN Respond(req, isAuthenticated(cred))
                     ELSE req]
    /\ UNCHANGED <<users, rooms, cleaningSessions, timeline, problemReports, authVars, sockets>>

StartInsert(c) ==
    /\ reqs[c].kind = "start" /\ reqs[c].pc = "insert"
    /\ LET req == reqs[c]
           ins == startCleaningSession(cleaningSessions, rooms, users,
                                       SessionData(req.roomId, req.cred.sub, req.body))
       IN /\ cleaningSessions' = ins.sessions
          /\ timeline' = IF ins.threw THEN timeline ELSE Append(timeline, NoHistory)
          /\ reqs' = [reqs EXCEPT ![c] =
                        IF ins.threw THEN Respond(req, "500")
                        ELSE [req EXCEPT !.pc = "update", !.sid = ins.id,
                                         !.writes = @ + 1]]
    /\ UNCHANGED <<users, rooms, problemReports, authVars, sockets>>

StartUpdateRoom(c) ==
    /\ reqs[c].kind = "start" /\ reqs[c].pc = "update"
    /\ LET req == reqs[c]
           upd == updateRoomStatus(rooms, req.roomId, "cleaning")
       IN /\ rooms' = upd.rooms
          /\ reqs' = [reqs EXCEPT ![c] =
                        IF upd.threw THEN Respond(req, "500")
                        ELSE [req EXCEPT !.pc = "broadcast", !.room = upd.room,
                                         !.writes = @ + Changed(rooms, req.roomId)]]
    /\ UNCHANGED <<users, cleaningSessions, timeline, problemReports, authVars, sockets>>

StartBroadcast(c) ==
    /\ reqs[c].kind = "start" /\ reqs[c].pc = "broadcast"
    /\ LET req == reqs[c]
           msg == Event("timer_update", "start", req.roomId, req.arg, req.sid)
       IN /\ sockets' = forEach(wsClients, sockets, msg)
          /\ reqs' = [reqs EXCEPT ![c] =
                        Respond([req EXCEPT !.events = broadcast(req, msg)], "200")]
    /\ UNCHANGED <<users, rooms, cleaningSessions, timeline, problemReports, authVars>>

\* ------------------------------------------- PATCH /api/cleaning-sessions/:id
\* updates = req.body is applied as sent; the client sends {status: "paused"}
\* or {status: "completed", endTime, totalTime}.
\* the total is sent in milliseconds
totalTimeMs(session, t) == (t - session.startTime) + session.pausedTime

\* Math.floor((now.getTime() - start.getTime()) / 1000) + (session.pausedTime || 0)
totalTime(session, t) == ((t - session.startTime) \div 1000) + session.pausedTime

\* the total leaves out the time the session stood paused
UpdatesWorked(ss, id, status) ==
    IF status = "completed" /\ id \in 1..Len(ss)
    THEN Body({"status", "endTime", "totalTime"}, status, NoTime, now,
              totalTime(ss[id], now) -
                (IF timeline[id].resumedAt # NoTime
                 THEN (timeline[id].resumedAt - timeline[id].pausedAt) \div 1000
                 ELSE 0))
    ELSE Body({"status"}, status, NoTime, NoTime, NoTime)

\* The body the client builds from its copy of the session: pause sends the
\* status alone, complete adds endTime: now.toISOString() and totalTime.  No
\* component sends {status: "active"}; the route takes it like any other body.
Updates(ss, id, status) ==
    IF status = "completed" /\ id \in 1..Len(ss)
    THEN Body({"status", "endTime", "totalTime"}, status, NoTime, now,
              totalTime(ss[id], now))
    ELSE Body({"status"}, status, NoTime, NoTime, NoTime)

\* what the update of a row's status adds to its history
History(h, before, after) ==
    IF before = "active" /\ after = "paused" THEN [h EXCEPT !.pausedAt = now]
    ELSE IF before = "paused" /\ after = "active" THEN [h EXCEPT !.resumedAt = now]
    ELSE h

SessionRequest(c, cred, id, status) ==
    /\ Free(c)
    /\ LET req == [Arrive(c, "session", cred, "", status, id, "update")
                      EXCEPT !.body = Updates(cleaningSessions, id, status)]
       IN reqs' = [reqs EXCEPT ![c] =
                     IF isAuthenticated(cred) # "next"
                     THEN Respond(req, isAuthenticated(cred))
                     ELSE req]
    /\ UNCHANGED <<users, rooms, cleaningSessions, timeline, problemReports, authVars, sockets>>

\* Bodies no component builds but the route takes: req.body is not parsed.
RawBodies ==
    {Body({"status"}, OtherStatus, NoTime, NoTime, NoTime),
     Body({"status", "startTime"}, "paused", 1000, NoTime, NoTime)}

\* the same route called with a body of the caller's own making
SessionPatch(c, cred, id, body) ==
    /\ Free(c)
    /\ LET req == [Arrive(c, "session", cred, "", body.status, id, "update")
                      EXCEPT !.body = body]
       IN reqs' = [reqs EXCEPT ![c] =
                     IF isAuthenticated(cred) # "next"
                     THEN Respond(req, isAuthenticated(cred))
                     ELSE req]
    /\ UNCHANGED <<users, rooms, cleaningSessions, timeline, problemReports, authVars, sockets>>

SessionUpdate(c) ==
    /\ reqs[c].kind = "session" /\ reqs[c].pc = "update"
    /\ LET req == reqs[c]
           upd == updateCleaningSession(cleaningSessions, req.sid, req.body)
       IN /\ cleaningSessions' = upd.sessions
          /\ timeline' = IF upd.id = NoSession THEN timeline
                         ELSE [timeline EXCEPT ![upd.id] =
                                 History(@, cleaningSessions[upd.id].status,
                                         upd.sessions[upd.id].status)]
          /\ reqs' = [reqs EXCEPT ![c] =
                        [req EXCEPT !.pc = "broadcast",
                                    !.was = IF upd.id = NoSession THEN ""
                                            ELSE cleaningSessions[upd.id].status,
                                    !.writes = @ + (IF upd.id = NoSession THEN 0 ELSE 1)]]
    /\ UNCHANGED <<users, rooms, problemReports, authVars, sockets>>

SessionBroadcast(c) ==
    /\ reqs[c].kind = "session" /\ reqs[c].pc = "broadcast"
    /\ LET req == reqs[c]
           msg == Event("timer_update", "update", "", req.arg, req.sid)
       IN /\ sockets' = forEach(wsClients, sockets, msg)
          /\ reqs' = [reqs EXCEPT ![c] =
                        Respond([req EXCEPT !.events = broadcast(req, msg)], "200")]
    /\ UNCHANGED <<users, rooms, cleaningSessions, timeline, problemReports, authVars>>

\* ---------------------------------------------------- POST /api/problem-reports
\* INSERT INTO problem_reports: room_id and reported_by are foreign keys.
createProblemReport(n, rs, us, reportData) ==
    IF reportData.roomId \notin DOMAIN rs \/ getUser(us, reportData.reportedBy) = NoUser
    THEN [threw |-> TRUE, reports |-> n]
    ELSE [threw |-> FALSE, reports |-> n + 1]

\* body: "ok" has type and description, "bad" fails insertProblemReportSchema
ReportRequest(c, cred, roomId, body) ==
    /\ Free(c)
    /\ problemReports +
         Cardinality({d \in Conns : reqs[d].kind = "report" /\ reqs[d].pc = "insert"})
           < MaxReports
    /\ LET req == Arrive(c, "report", cred, roomId, body, NoSession, "insert")
       IN reqs' = [reqs EXCEPT ![c] =
                     IF isAuthenticated(cred) # "next"
                     THEN Respond(req, isAuthenticated(cred))
                     ELSE IF body # "ok" THEN Respond(req, "500")
                     ELSE req]
    /\ UNCHANGED <<users, rooms, cleaningSessions, timeline, problemReports, authVars, sockets>>

ReportInsert(c) ==
    /\ reqs[c].kind = "report" /\ reqs[c].pc = "insert"
    /\ LET req == reqs[c]
           ins == createProblemReport(problemReports, rooms, users,
                                      [roomId |-> req.roomId, reportedBy |-> req.cred.sub])
       IN /\ problemReports' = ins.reports
          /\ reqs' = [reqs EXCEPT ![c] =
                        IF ins.threw THEN Respond(req, "500")
                        ELSE [req EXCEPT !.pc = "update", !.writes = @ + 1]]
    /\ UNCHANGED <<users, rooms, cleaningSessions, timeline, authVars, sockets>>

ReportUpdateRoom(c) ==
    /\ reqs[c].kind = "report" /\ reqs[c].pc = "update"
    /\ LET req == reqs[c]
           upd == updateRoomStatus(rooms, req.roomId, "inspection")
       IN /\ rooms' = upd.rooms
          /\ reqs' = [reqs EXCEPT ![c] =
                        IF upd.threw THEN Respond(req, "500")
                        ELSE [req EXCEPT !.pc = "broadcast", !.room = upd.room,
                                         !.writes = @ + Changed(rooms, req.roomId)]]
    /\ UNCHANGED <<users, cleaningSessions, timeline, problemReports, authVars, sockets>>

ReportBroadcast(c) ==
    /\ reqs[c].kind = "report" /\ reqs[c].pc = "broadcast"
    /\ LET req == reqs[c]
           msg == Event("problem_report", "create", req.roomId, "", NoSession)
       IN /\ sockets' = forEach(wsClients, sockets, msg)
          /\ reqs' = [reqs EXCEPT ![c] =
                        Respond([req EXCEPT !.events = broadcast(req, msg)], "200")]
    /\ UNCHANGED <<users, rooms, cleaningSessions, timeline, problemReports, authVars>>

\* ---------------------------------------------- /api/checklist-completions
\* A row keeps its room, whether it is marked completed, whether it carries
\* a supervisor signature, and whether every item of completedItems is true.
Completion(roomId, isCompleted, signed, allItems) ==
    [roomId |-> roomId, isCompleted |-> isCompleted, signed |-> signed,
     allItems |-> allItems]

\* INSERT INTO checklist_completions: room_id and housekeeper_id are foreign keys.
saveChecklistCompletion(cs, rs, us, completionData, housekeeperId) ==
    IF completionData.roomId \notin DOMAIN rs \/ getUser(us, housekeeperId) = NoUser
    THEN [threw |-> TRUE, completions |-> cs, id |-> NoSession]
    ELSE [threw |-> FALSE, completions |-> Append(cs, completionData), id |-> Len(cs) + 1]

\* the request bodies of PATCH: what each sets
Patch(row, updates) ==
    IF updates = "complete" THEN [row EXCEPT !.isCompleted = TRUE]
    ELSE IF updates = "sign" THEN [row EXCEPT !.signed = TRUE]
    ELSE IF updates = "finalize" THEN [row EXCEPT !.isCompleted = TRUE, !.signed = TRUE]
    ELSE [row EXCEPT !.isCompleted = FALSE]

\* UPDATE checklist_completions SET ... WHERE id = $1 RETURNING *
updateChecklistCompletion(cs, completionId, updates) ==
    IF completionId \in 1..Len(cs)
    THEN [completions |-> [cs EXCEPT ![completionId] = Patch(@, updates)],
          id |-> completionId]
    ELSE [completions |-> cs, id |-> NoSession]

\* POST: the client saves progress (isCompleted false, the items ticked so
\* far) or submits (isCompleted true, sent only once every item is ticked)
ChecklistSaveRequest(c, cred, roomId, isCompleted) ==
    /\ Free(c)
    /\ Len(checklistCompletions) +
         Cardinality({d \in Conns : reqs[d].kind = "save" /\ reqs[d].pc = "insert"})
           < MaxCompletions
    /\ LET req == Arrive(c, "save", cred, roomId,
                         IF isCompleted THEN "submit" ELSE "progress", NoSession, "insert")
       IN reqs' = [reqs EXCEPT ![c] =
                     IF isAuthenticated(cred) # "next"
                     THEN Respond(req, isAuthenticated(cred))
                     ELSE req]
    /\ UNCHANGED <<users, rooms, cleaningSessions, timeline, problemReports, authVars, sockets>>

ChecklistSaveInsert(c) ==
    /\ reqs[c].kind = "save" /\ reqs[c].pc = "insert"
    /\ LET req == reqs[c]
           ins == saveChecklistCompletion(checklistCompletions, rooms, users,
                     Completion(req.roomId, req.arg = "submit", FALSE, req.arg = "submit"),
                     req.cred.sub)
       IN /\ checklistCompletions' = ins.completions
          /\ reqs' = [reqs EXCEPT ![c] =
                        IF ins.threw THEN Respond(req, "500")
                        ELSE [req EXCEPT !.pc = "broadcast", !.sid = ins.id,
                                         !.writes = @ + 1]]
    /\ UNCHANGED <<users, rooms, cleaningSessions, timeline, problemReports,
                   devOverride, passport, shadow, now,
                   wsClients, sockets, hook>>

ChecklistSaveBroadcast(c) ==
    /\ reqs[c].kind = "save" /\ reqs[c].pc = "broadcast"
    /\ LET req == reqs[c]
           msg == Event("checklist_update", "save", req.roomId, "", req.sid)
       IN /\ sockets' = forEach(wsClients, sockets, msg)
          /\ reqs' = [reqs EXCEPT ![c] =
                        Respond([req EXCEPT !.events = broadcast(req, msg)], "200")]
    /\ UNCHANGED <<users, rooms, cleaningSessions, timeline, problemReports, authVars>>

\* PATCH /api/checklist-completions/:id
ChecklistRequest(c, cred, id, updates) ==
    /\ Free(c)
    /\ LET req == Arrive(c, "checklist", cred, "", updates, id, "update")
       IN reqs' = [reqs EXCEPT ![c] =
                     IF isAuthenticated(cred) # "next"
                     THEN Respond(req, isAuthenticated(cred))
                     ELSE req]
    /\ UNCHANGED <<users, rooms, cleaningSessions, timeline, problemReports, authVars, sockets>>

\* the update, then `completion.isCompleted && completion.supervisorSignature`:
\* reading a property of the undefined row of an unknown id throws
ChecklistUpdate(c) ==
    /\ reqs[c].kind = "checklist" /\ reqs[c].pc = "update"
    /\ LET req == reqs[c]
           upd == updateChecklistCompletion(checklistCompletions, req.sid, req.arg)
       IN /\ checklistCompletions' = upd.completions
          /\ reqs' = [reqs EXCEPT ![c] =
                IF upd.id = NoSession THEN Respond(req, "500")
                ELSE LET completion == upd.completions[upd.id]
                         seen == [req EXCEPT !.writes = @ + 1, !.roomId = completion.roomId,
                                             !.was = rooms[completion.roomId].status]
                     IN IF completion.isCompleted /\ completion.signed
                        THEN [seen EXCEPT !.pc = "room"]
                        ELSE [seen EXCEPT !.pc = "broadcast"]]
    /\ UNCHANGED <<users, rooms, cleaningSessions, timeline, problemReports,
                   devOverride, passport, shadow, now,
                   wsClients, sockets, hook>>

ChecklistUpdateRoom(c) ==
    /\ reqs[c].kind = "checklist" /\ reqs[c].pc = "room"
    /\ LET req == reqs[c]
           upd == updateRoomStatus(rooms, req.roomId, "clean")
       IN /\ rooms' = upd.rooms
          /\ reqs' = [reqs EXCEPT ![c] =
                        IF upd.threw THEN Respond(req, "500")
                        ELSE [req EXCEPT !.pc = "broadcast", !.room = upd.room,
                                         !.writes = @ + Changed(rooms, req.roomId)]]
    /\ UNCHANGED <<users, cleaningSessions, timeline, problemReports, authVars, sockets>>

ChecklistBroadcast(c) ==
    /\ reqs[c].kind = "checklist" /\ reqs[c].pc = "broadcast"
    /\ LET req == reqs[c]
           msg == Event("checklist_update", "update", req.roomId, "", req.sid)
       IN /\ sockets' = forEach(wsClients, sockets, msg)
          /\ reqs' = [reqs EXCEPT ![c] =
                        Respond([req EXCEPT !.events = broadcast(req, msg)], "200")]
    /\ UNCHANGED <<users, rooms, cleaningSessions, timeline, problemReports, authVars>>

\* ----------------------------------------------------------------- login
\* tokens.claims() of the identity token presented at /api/callback
Claims(sub, email, role) == [sub |-> sub, email |-> email, role |-> role]

\* id of the row that holds an email, NoSub when none does
ByEmail(store, email) ==
    IF \E u \in DOMAIN store : store[u].email = email
    THEN CHOOSE u \in DOMAIN store : store[u].email = email
    ELSE NoSub

\* DatabaseStorage.upsertUser: INSERT ... ON CONFLICT (id) DO UPDATE; when the
\* statement violates users_email_unique the row holding the email is updated
\* instead, role included, and that row is returned.
storageUpsertUser(store, userData) ==
    LET owner == ByEmail(store, userData.email)
        row == [email |-> userData.email, role |-> userData.role]
    IN IF owner # NoSub /\ owner # userData.id
       THEN [store |-> [store EXCEPT ![owner].role = userData.role], id |-> owner]
       ELSE [store |-> (userData.id :> row) @@ store, id |-> userData.id]

\* the role given to a user without one when the claims carry none
DefaultRole(dev, email) ==
    IF dev /\ email \in {"manager@test.com", "admin@hotel.com"} THEN "manager"
    ELSE "housekeeper"

\* upsertUser(claims) of the login callback
upsertUser(store, dev, claims) ==
    LET existingUser == getUser(store, claims.sub)
        userRole == IF existingUser # NoUser /\ existingUser.role # ""
                    THEN existingUser.role
                    ELSE IF claims.role # "" THEN claims.role
                    ELSE DefaultRole(dev, claims.email)
    IN storageUpsertUser(store, [id |-> claims.sub, email |-> claims.email,
                                 role |-> userRole])

\* verify(): the user is upserted and the session subject becomes the id of the
\* row that was written.  The same login runs against shadow with role2 as
\* its role claim.
Login(sub, email, role, role2) ==
    /\ LET run == upsertUser(users, devOverride, Claims(sub, email, role))
           other == upsertUser(shadow, devOverride, Claims(sub, email, role2))
       IN /\ users' = run.store
          /\ shadow' = other.store
          /\ passport' = passport \cup {run.id}
    /\ UNCHANGED <<rooms, cleaningSessions, timeline, problemReports, checklistCompletions,
                   reqs, devOverride, now,
                   wsClients, sockets, hook>>

\* ------------------------------------------------------------- WebSocket server
\* wss.on('connection', ws => wsClients.add(ws))
Connection(s) ==
    /\ sockets[s].readyState = "CONNECTING"
    /\ wsClients' = wsClients \cup {s}
    /\ sockets' = [sockets EXCEPT ![s].readyState = "OPEN"]
    /\ UNCHANGED <<storeVars, hook>>

\* the transport under an open socket fails; nothing is reported yet
Break(s) ==
    /\ sockets[s].readyState = "OPEN" /\ ~sockets[s].broken
    /\ sockets' = [sockets EXCEPT ![s].broken = TRUE]
    /\ UNCHANGED <<storeVars, wsClients, hook>>

\* a close frame arrives on a working transport: the closing handshake starts
Closing(s) ==
    /\ sockets[s].readyState = "OPEN" /\ ~sockets[s].broken
    /\ sockets' = [sockets EXCEPT ![s].readyState = "CLOSING"]
    /\ UNCHANGED <<storeVars, wsClients, hook>>

\* the 'error' event of a socket whose transport has failed
Error(s) ==
    /\ sockets[s].readyState = "OPEN" /\ sockets[s].broken
    /\ sockets' = [sockets EXCEPT ![s].readyState = "CLOSING"]
    /\ wsClients' = onError(wsClients, s)
    /\ UNCHANGED <<storeVars, hook>>

\* the 'close' event: the socket is closed
Close(s) ==
    /\ sockets[s].readyState = "CLOSING"
    /\ sockets' = [sockets EXCEPT ![s].readyState = "CLOSED"]
    /\ wsClients' = onClose(wsClients, s)
    /\ UNCHANGED <<storeVars, hook>>

WebSocketServer ==
    \E s \in Sockets :
        \/ Connection(s)
        \/ Break(s)
        \/ Closing(s)
        \/ Error(s)
        \/ Close(s)

\* ------------------------------------------------------- the client's hook
MessageTypes ==
    {"room_status_update", "timer_update", "checklist_update", "problem_report", "other"}

\* close codes: normal, going away, abnormal
CloseCodes == {1000, 1001, 1006}

HookOpen ==
    /\ hook.socket = "connecting"
    /\ hook' = onopen(hook)
    /\ UNCHANGED <<storeVars, wsClients, sockets>>

\* The close event of the socket.  After close(1000) of an open socket the
\* code is 1000; the code after close() of a connecting socket is the
\* browser's choice.
HookClose(code) ==
    /\ \/ hook.socket \in {"connecting", "open", "aborting"}
       \/ hook.socket = "closing" /\ code = 1000
    /\ hook' = onclose(hook, code)
    /\ UNCHANGED <<storeVars, wsClients, sockets>>

HookTimer ==
    /\ hook.timer
    /\ hook' = connect(hook)
    /\ UNCHANGED <<storeVars, wsClients, sockets>>

HookMessage(type) ==
    /\ hook.socket = "open"
    /\ hook' = handleWebSocketMessage(hook, type)
    /\ UNCHANGED <<storeVars, wsClients, sockets>>

HookUnmount ==
    /\ hook.mounted
    /\ hook' = cleanup(hook)
    /\ UNCHANGED <<storeVars, wsClients, sockets>>

\* ------------------------------------------------------------ specifications
Fresh(u) == Cred(u, "fresh", "")

\* every way a request can present itself to the gate
AllCreds ==
    {Anon} \cup {Fresh(u) : u \in UserIds \cup {GhostId}}
           \cup {Cred("maria", s, "") : s \in {"stale", "renewed", "revoked"}}

StaffCreds ==
    {Anon, Fresh(GhostId)}
        \cup {Cred("ana", s, "") : s \in {"fresh", "stale", "renewed", "revoked"}}

AllRooms == RoomIds \cup {NoRoom}

AllStatuses == statusSchema \cup {OtherStatus}

SessionIds == 1..(MaxSessions + 1)

SessionStatuses == {"active", "paused", "completed"}

\* The requests the server accepts on the connections C: the role-gated route
\* with credentials RC and targets ST, the other routes with credentials SC.
Server(C, RC, SC, ST, SS) ==
    \E c \in C :
        \/ \E cred \in RC, id \in AllRooms, status \in ST :
                StatusRequest(c, cred, id, status)
        \/ StatusUpdate(c)
        \/ StatusBroadcast(c)
        \/ \E cred \in SC, id \in AllRooms : StartRequest(c, cred, id)
        \/ StartInsert(c)
        \/ StartUpdateRoom(c)
        \/ StartBroadcast(c)
        \/ \E cred \in SC, id \in SessionIds, status \in SS :
                SessionRequest(c, cred, id, status)
        \/ SessionUpdate(c)
        \/ SessionBroadcast(c)
        \/ \E cred \in SC, id \in AllRooms, body \in {"ok", "bad"} :
                ReportRequest(c, cred, id, body)
        \/ ReportInsert(c)
        \/ ReportUpdateRoom(c)
        \/ ReportBroadcast(c)

CompletionIds == 1..(MaxCompletions + 1)

\* The checklist routes on the connections C with credentials SC.
Checklists(C, SC) ==
    \E c \in C :
        \/ \E cred \in SC, id \in AllRooms, isCompleted \in BOOLEAN :
                ChecklistSaveRequest(c, cred, id, isCompleted)
        \/ ChecklistSaveInsert(c)
        \/ ChecklistSaveBroadcast(c)
        \/ \E cred \in SC, id \in CompletionIds,
              updates \in {"complete", "sign", "finalize", "reopen"} :
                ChecklistRequest(c, cred, id, updates)
        \/ ChecklistUpdate(c)
        \/ ChecklistUpdateRoom(c)
        \/ ChecklistBroadcast(c)

\* Room and session lifecycle: one connection, requests one after another,
\* every target status, sessions started and completed.
Next ==
    Server({"c1"}, {Fresh("maria"), Fresh("supA"), Fresh("ana")}, {Fresh("ana")},
           AllStatuses, {"completed"})

Spec == Init /\ [][Next]_vars

\* The access gate: every credential on every route.
NextGate ==
    Server({"c1"}, AllCreds, StaffCreds, {"clean", "approved", OtherStatus}, {"paused"})

SpecGate == Init /\ [][NextGate]_vars

\* Two connections whose handlers interleave between their statements.
NextRace ==
    Server(Conns, {Fresh("maria")}, {Fresh("ana")}, {"clean", "occupied"}, {"completed"})

SpecRace == Init /\ [][NextRace]_vars

\* Every route that writes a room's status, by callers the gate admits.
NextRooms ==
    \/ Server({"c1"}, {Fresh("maria")}, {Fresh("ana")}, AllStatuses, {"completed"})
    \/ Checklists({"c1"}, {Fresh("ana")})

SpecRooms == Init /\ [][NextRooms]_vars

\* Logins: any subject and email with any role claim, in either environment.
LoginSubs == {"maria", "ana", "nuno"}

LoginEmails == {"maria@hotel.com", "ana@hotel.com", "manager@test.com"}

RoleClaims == userRoleEnum \cup {""}

InitAuth ==
    /\ Init!1 /\ Init!2 /\ Init!3 /\ Init!4 /\ Init!5 /\ Init!6
    /\ devOverride \in BOOLEAN
    /\ passport = {}
    /\ shadow = users
    /\ now = 0
    /\ timeline = <<>>
    /\ wsClients = {}
    /\ sockets = [s \in Sockets |-> NoSocket]
    /\ hook = HookInit

NextAuth ==
    \E sub \in LoginSubs, email \in LoginEmails, role \in RoleClaims, role2 \in RoleClaims :
        Login(sub, email, role, role2)

SpecAuth == InitAuth /\ [][NextAuth]_vars

\* The session timer against the wall clock: one connection starts two
\* sessions while the clock advances; the first is paused, resumed and
\* completed in any order, the second is completed only.
TimedSessions == {1, 2}

NextTimer ==
    \/ Tick
    \/ \E c \in {"c1"} :
        \/ Len(cleaningSessions) + 1 \in TimedSessions
              /\ StartRequest(c, Fresh("ana"), "101")
        \/ StartInsert(c)
        \/ StartUpdateRoom(c)
        \/ StartBroadcast(c)
        \/ \E status \in SessionStatuses : SessionRequest(c, Fresh("ana"), 1, status)
        \/ SessionRequest(c, Fresh("ana"), 2, "completed")
        \/ SessionUpdate(c)
        \/ SessionBroadcast(c)

SpecTimer == Init /\ [][NextTimer]_vars

\* Direct status changes against the wall clock.
NextClock ==
    \/ Tick
    \/ \E c \in {"c1"} :
        \/ \E cred \in {Fresh("maria"), Fresh("ana")}, id \in AllRooms,
              status \in {"dirty", "clean", "approved"} :
                StatusRequest(c, cred, id, status)
        \/ StatusUpdate(c)
        \/ StatusBroadcast(c)

SpecClock == Init /\ [][NextClock]_vars

\* The event broadcaster: sockets connect, break and close while one
\* connection sends requests that succeed and requests that fail.
Listening == \A s \in Sockets : Len(sockets[s].inbox) < MaxEvents

NextFan ==
    \/ WebSocketServer
    \/ \E c \in {"c1"} :
        \/ \E cred \in {Fresh("maria"), Fresh("ana")},
              status \in {"clean", "approved", OtherStatus} :
                Listening /\ StatusRequest(c, cred, "101", status)
        \/ StatusUpdate(c)
        \/ StatusBroadcast(c)
        \/ \E cred \in {Fresh("ana"), Anon}, id \in AllRooms, body \in {"ok", "bad"} :
                Listening /\ ReportRequest(c, cred, id, body)
        \/ ReportInsert(c)
        \/ ReportUpdateRoom(c)
        \/ ReportBroadcast(c)

SpecFan == Init /\ [][NextFan]_vars

\* The event loop runs the handler of every event that is due.
SpecFanLive ==
    SpecFan /\ \A s \in Sockets : WF_vars(Error(s)) /\ WF_vars(Close(s))

\* Two managers change the status of the same room at the same time.
NextSerial ==
    \E c \in Conns :
        \/ \E cred \in {Fresh("maria"), Fresh("supA")},
              status \in {"clean", "occupied", "approved"} :
                StatusRequest(c, cred, "101", status)
        \/ StatusUpdate(c)
        \/ StatusBroadcast(c)

SpecSerial == Init /\ [][NextSerial]_vars

\* Two rooms with different staff: every route on either room.
PairRooms == {"101", "102"}

InitPair ==
    /\ Init!1
    /\ rooms = [r \in PairRooms |->
                  IF r = "101" THEN [status |-> "dirty", assignedTo |-> "ana", updatedAt |-> 0]
                  ELSE [status |-> "inspection", assignedTo |-> "supA", updatedAt |-> 0]]
    /\ Init!3 /\ Init!4 /\ Init!5 /\ Init!6 /\ Init!7 /\ Init!8 /\ Init!9
    /\ Init!10 /\ Init!11 /\ Init!12 /\ Init!13 /\ Init!14

NextPair ==
    \E c \in {"c1"} :
        \/ \E id \in PairRooms : StatusRequest(c, Fresh("maria"), id, "occupied")
        \/ StatusUpdate(c)
        \/ StatusBroadcast(c)
        \/ \E id \in PairRooms :
                Len(cleaningSessions) + 1 \in TimedSessions
                  /\ StartRequest(c, Fresh("ana"), id)
        \/ StartInsert(c)
        \/ StartUpdateRoom(c)
        \/ StartBroadcast(c)
        \/ \E status \in {"paused", "active", "completed"} :
                SessionRequest(c, Fresh("ana"), 1, status)
        \/ SessionUpdate(c)
        \/ SessionBroadcast(c)
        \/ problemReports = 0 /\ ReportRequest(c, Fresh("ana"), "101", "ok")
        \/ ReportInsert(c)
        \/ ReportUpdateRoom(c)
        \/ ReportBroadcast(c)
        \/ checklistCompletions = <<>>
             /\ ChecklistSaveRequest(c, Fresh("ana"), "102", TRUE)
        \/ ChecklistSaveInsert(c)
        \/ ChecklistSaveBroadcast(c)
        \/ ChecklistRequest(c, Fresh("supA"), 1, "finalize")
        \/ ChecklistUpdate(c)
        \/ ChecklistUpdateRoom(c)
        \/ ChecklistBroadcast(c)

SpecPair == InitPair /\ [][NextPair]_vars

\* The room list asked for by every kind of caller, with and without the
\* assignedTo parameter, while a manager changes rooms.
NextList ==
    \E c \in {"c1"} :
        \/ \E id \in PairRooms, status \in {"clean", "occupied"} :
                StatusRequest(c, Fresh("maria"), id, status)
        \/ StatusUpdate(c)
        \/ StatusBroadcast(c)
        \/ \E cred \in AllCreds, assignedTo \in {"", "ana", "supA"} :
                ListRequest(c, cred, assignedTo)
        \/ ListUser(c)
        \/ ListRooms(c)

SpecList == InitPair /\ [][NextList]_vars

\* Two managers change the status of room 101 at the same time while a
\* subscriber listens.
NextOrder ==
    \/ Connection("w1")
    \/ \E c \in Conns :
        \/ \E cred \in {Fresh("maria"), Fresh("supA")}, status \in {"clean", "occupied"} :
                Listening /\ StatusRequest(c, cred, "101", status)
        \/ StatusUpdate(c)
        \/ StatusBroadcast(c)

SpecOrder == Init /\ [][NextOrder]_vars

\* One session of room 101 updated by the client's bodies and by raw ones.
NextSession ==
    \E c \in {"c1"} :
        \/ cleaningSessions = <<>> /\ StartRequest(c, Fresh("ana"), "101")
        \/ StartInsert(c)
        \/ StartUpdateRoom(c)
        \/ StartBroadcast(c)
        \/ \E status \in SessionStatuses : SessionRequest(c, Fresh("ana"), 1, status)
        \/ \E body \in RawBodies : SessionPatch(c, Fresh("ana"), 1, body)
        \/ SessionUpdate(c)
        \/ SessionBroadcast(c)

SpecSession == Init /\ [][NextSession]_vars

\* The client's hook against a connection that opens, closes and delivers
\* messages in any order.
NextHook ==
    \/ HookOpen
    \/ \E code \in CloseCodes : HookClose(code)
    \/ HookTimer
    \/ \E type \in MessageTypes : HookMessage(type)
    \/ HookUnmount

SpecHook == Init /\ [][NextHook]_vars

TypeOK ==
    /\ \A r \in RoomIds : rooms[r].status \in statusSchema
    /\ Len(cleaningSessions) <= MaxSessions

\* ------------------------------------------------------------------- claims
Done(c) == reqs[c].pc = "done"

Started(c) == reqs[c].pc # "idle"

Untouched(c) ==
    /\ reqs[c].writes = 0
    /\ reqs[c].events = NoEvent
    /\ reqs[c].roomId \in DOMAIN rooms => rooms[reqs[c].roomId].status = reqs[c].was

StoredRole(cred) == getUser(users, cred.sub).role

\* the request has no login, or a login that expired and cannot be renewed
NoIdentity(cred) == cred.sess \in {"anon", "stale", "revoked"}

\* C1: for every room at most one cleaning session is active or paused.
C1_AtMostOneOpenSession ==
    \A r \in DOMAIN rooms :
        Cardinality(getActiveCleaningSession(cleaningSessions, r)) <= 1

\* C2: of two start-session requests for the same room whose handlers overlap,
\* exactly one creates a session and the other fails with Conflict (409).
C2_OneStartWins ==
    \A c, d \in Conns :
        (c # d /\ reqs[c].kind = "start" /\ reqs[d].kind = "start"
            /\ Done(c) /\ Done(d) /\ reqs[d].overlap
            /\ reqs[c].roomId = reqs[d].roomId /\ reqs[c].roomId \in DOMAIN rooms)
        => \E w \in {c, d} : \E l \in {c, d} \ {w} :
              /\ reqs[w].result = "200" /\ reqs[w].sid # NoSession
              /\ reqs[l].result = "409" /\ reqs[l].sid = NoSession

\* C3: a start-session request for a room that already has an active or paused
\* session fails with Conflict (409), creates no session, changes no room status
\* and emits no event.
C3_StartOnBusyRoomConflicts ==
    \A c \in Conns :
        (reqs[c].kind = "start" /\ Done(c) /\ reqs[c].hadOpen
            /\ isAuthenticated(reqs[c].cred) = "next")
        => (reqs[c].result = "409" /\ reqs[c].sid = NoSession /\ Untouched(c))

\* C4: every room's status is always a member of the room_status enumeration,
\* whichever operation (direct status change, session start, checklist
\* finalize, problem report) wrote it.
C4_StatusInEnum ==
    \A r \in DOMAIN rooms : rooms[r].status \in roomStatusEnum

C4_Witness ==
    \E c \in Conns :
        /\ reqs[c].kind = "status" /\ Done(c)
        /\ reqs[c].arg = "approved" /\ StoredRole(reqs[c].cred) = "manager"
        /\ reqs[c].roomId \in DOMAIN rooms

\* C5: a direct status change whose target is outside the enumerated set never
\* reaches the store: it is answered at once, writes nothing, broadcasts
\* nothing, leaves the room as it was, and a permitted caller gets 400
\* (invalid status).
C5_InvalidTargetRejected ==
    \A c \in Conns :
        (reqs[c].kind = "status" /\ Started(c) /\ reqs[c].arg \notin statusSchema)
        => /\ Done(c)
           /\ Untouched(c)
           /\ reqs[c].result # "200"
           /\ StoredRole(reqs[c].cred) \in {"manager", "supervisor"}
                => reqs[c].result = "400"

C5_Witness ==
    \E c \in Conns :
        /\ reqs[c].kind = "status" /\ Done(c) /\ reqs[c].arg = OtherStatus
        /\ StoredRole(reqs[c].cred) = "manager" /\ reqs[c].roomId \in DOMAIN rooms
        /\ reqs[c].result = "400"

\* C6: a direct status change by an authenticated user whose stored role is
\* neither manager nor supervisor is answered 403 (forbidden), leaves the room
\* status unchanged and broadcasts nothing.
C6_HousekeeperForbidden ==
    \A c \in Conns :
        (reqs[c].kind = "status" /\ Started(c)
            /\ isAuthenticated(reqs[c].cred) = "next"
            /\ StoredRole(reqs[c].cred) \notin {"manager", "supervisor"})
        => (Done(c) /\ reqs[c].result = "403" /\ Untouched(c))

C6_Witness ==
    \E c \in Conns :
        /\ reqs[c].kind = "status" /\ Done(c)
        /\ StoredRole(reqs[c].cred) = "housekeeper"
        /\ reqs[c].arg \in roomStatusEnum /\ reqs[c].roomId \in DOMAIN rooms
        /\ reqs[c].arg # reqs[c].was
        /\ reqs[c].result = "403"

\* C7: on every mutating route a request without a valid (or renewable) login
\* is answered 401, and on the role-gated route a request whose stored role is
\* not in the required role set is answered 403; either way the handler has
\* not run: nothing was written and nothing was broadcast.
C7_GateBeforeOperation ==
    \A c \in Conns :
        /\ (Started(c) /\ NoIdentity(reqs[c].cred))
            => (Done(c) /\ reqs[c].result = "401" /\ Untouched(c))
        /\ (reqs[c].kind = "status" /\ Started(c) /\ ~NoIdentity(reqs[c].cred)
                /\ StoredRole(reqs[c].cred) \notin {"manager", "supervisor"})
            => (Done(c) /\ reqs[c].result = "403" /\ Untouched(c))

C7_Witness ==
    \E c \in Conns :
        /\ reqs[c].kind = "session" /\ Done(c)
        /\ reqs[c].cred.sess \in {"stale", "revoked"}
        /\ reqs[c].sid \in 1..Len(cleaningSessions)
        /\ cleaningSessions[reqs[c].sid].status = "active" /\ reqs[c].arg = "paused"
        /\ reqs[c].result = "401"

\* C8: the gate decides by the stored role only and a role claim never
\* determines what it grants: two runs of the same logins that differ only in
\* the role claims presented give every login session the same decision on
\* every role-gated route.
GatedRoleSets == {{"manager", "supervisor"}, {"manager"}}

C8_RoleClaimsDoNotDecide ==
    \A sub \in passport : \A allowed \in GatedRoleSets :
        requireRole(allowed, Fresh(sub), users) = requireRole(allowed, Fresh(sub), shadow)

C10_ReportSparesOccupied ==
    \A c \in Conns :
        (reqs[c].kind = "report" /\ Done(c) /\ reqs[c].result = "200")
        => rooms[reqs[c].roomId].status =
              (IF reqs[c].was = "occupied" THEN "occupied" ELSE "inspection")

\* the handler's awaited statement returns in this step
Returns(c, kind, pc) ==
    reqs[c].kind = kind /\ reqs[c].pc = pc /\ reqs'[c].pc # pc

RoomUpdateEvent(c) ==
    Event("room_status_update", "", reqs[c].roomId, reqs[c].arg, NoSession)

\* C11: a permitted direct transition of a room to the status it already has
\* succeeds (200), changes no field of the room record, and emits exactly one
\* room_status_update event.
C11_SameStatusChangesNoField ==
    [][\A c \in Conns :
          /\ (Returns(c, "status", "update") /\ reqs[c].roomId \in DOMAIN rooms
                /\ reqs[c].arg = rooms[reqs[c].roomId].status)
             => (rooms'[reqs[c].roomId] = rooms[reqs[c].roomId]
                    /\ reqs'[c].pc = "broadcast")
          /\ (Returns(c, "status", "broadcast") /\ reqs[c].roomId \in DOMAIN rooms
                /\ reqs[c].arg = reqs[c].was)
             => (reqs'[c].result = "200"
                    /\ reqs'[c].events = <<RoomUpdateEvent(c)>>)]_vars

\* C11 (amended): a permitted direct transition of a room to the status it
\* already has succeeds (200), changes no field of the room record other than
\* updatedAt, which takes the current time, and emits exactly one
\* room_status_update event.
C11_SameStatusTouchesOnlyUpdatedAt ==
    [][\A c \in Conns :
          /\ (Returns(c, "status", "update") /\ reqs[c].roomId \in DOMAIN rooms
                /\ reqs[c].arg = rooms[reqs[c].roomId].status)
             => (rooms'[reqs[c].roomId].status = rooms[reqs[c].roomId].status
                    /\ rooms'[reqs[c].roomId].assignedTo = rooms[reqs[c].roomId].assignedTo
                    /\ rooms'[reqs[c].roomId].updatedAt = now
                    /\ reqs'[c].pc = "broadcast")
          /\ (Returns(c, "status", "broadcast") /\ reqs[c].roomId \in DOMAIN rooms
                /\ reqs[c].arg = reqs[c].was)
             => (reqs'[c].result = "200"
                    /\ reqs'[c].events = <<RoomUpdateEvent(c)>>)]_vars

C11_Witness ==
    \E c \in Conns :
        /\ reqs[c].kind = "status" /\ Done(c) /\ reqs[c].result = "200"
        /\ reqs[c].roomId \in DOMAIN rooms /\ reqs[c].arg = reqs[c].was
        /\ rooms[reqs[c].roomId].updatedAt > 0
        /\ Len(reqs[c].events) = 1

\* C12: a direct status change by a permitted caller that names a room id no
\* room has fails with NotFound (404), writes no record and broadcasts no
\* event.
C12_UnknownRoomNotFound ==
    \A c \in Conns :
        (reqs[c].kind = "status" /\ Done(c) /\ reqs[c].roomId \notin DOMAIN rooms
            /\ StoredRole(reqs[c].cred) \in {"manager", "supervisor"}
            /\ reqs[c].arg \in statusSchema)
        => (reqs[c].result = "404" /\ reqs[c].writes = 0 /\ reqs[c].events = NoEvent)

C14_StartIsAtomic ==
    \A c \in Conns :
        (reqs[c].kind = "start" /\ Started(c))
        => /\ (Done(c) /\ reqs[c].result # "200") => reqs[c].sid = NoSession
           /\ reqs[c].sid # NoSession => rooms[reqs[c].roomId].status = "cleaning"

\* C15: pause succeeds only on an active session: a pause request on a paused
\* or completed session fails with InvalidTransition (400 or 409) and leaves
\* the session's status as it was.
C15_PauseOnlyFromActive ==
    \A c \in Conns :
        (reqs[c].kind = "session" /\ Done(c) /\ reqs[c].arg = "paused"
            /\ reqs[c].sid \in 1..Len(cleaningSessions)
            /\ reqs[c].was \in {"paused", "completed"})
        => /\ reqs[c].result \in {"400", "409"}
           /\ cleaningSessions[reqs[c].sid].status = reqs[c].was

\* C16: resume succeeds only on a paused session, and then the session is
\* active and its pausedTime has grown by the length of the pause just ended
\* (from the pause to the resume, in seconds); on any other session it fails
\* and changes nothing.
C16_ResumeRollsPauseIntoPausedTime ==
    [][\A c \in Conns :
          (Returns(c, "session", "update") /\ reqs[c].arg = "active"
              /\ reqs[c].sid \in 1..Len(cleaningSessions))
          => LET before == cleaningSessions[reqs[c].sid]
                 after == cleaningSessions'[reqs[c].sid]
                 pause == (now - timeline[reqs[c].sid].pausedAt) \div 1000
             IN IF before.status = "paused"
                THEN /\ after.status = "active"
                     /\ after.pausedTime = before.pausedTime + pause
                ELSE /\ after = before
                     /\ reqs'[c].pc = "done" /\ reqs'[c].result # "200"]_vars

\* C17: completed is terminal: a completed session's status, endTime,
\* totalTime and pausedTime never change again, and every later pause, resume
\* or complete request on it fails with InvalidTransition (400 or 409).
C17_CompletedIsTerminal ==
    [][\A i \in 1..Len(cleaningSessions) :
          cleaningSessions[i].status = "completed"
          => /\ cleaningSessions'[i].status = "completed"
             /\ cleaningSessions'[i].endTime = cleaningSessions[i].endTime
             /\ cleaningSessions'[i].totalTime = cleaningSessions[i].totalTime
             /\ cleaningSessions'[i].pausedTime = cleaningSessions[i].pausedTime
             /\ \A c \in Conns :
                  (Returns(c, "session", "update") /\ reqs[c].sid = i)
                  => (reqs'[c].pc = "done" /\ reqs'[c].result \in {"400", "409"})]_vars

Resumed(i) ==
    /\ timeline[i].pausedAt # NoTime
    /\ timeline[i].resumedAt # NoTime
    /\ timeline[i].pausedAt <= timeline[i].resumedAt

Emits(c) == reqs'[c].events[Len(reqs'[c].events)]

\* the socket is a member whose readyState is OPEN and whose transport works
Receiving(s) ==
    s \in wsClients /\ sockets[s].readyState = "OPEN" /\ ~sockets[s].broken

\* C21: the broadcast of a successful mutation delivers its event exactly once
\* to every subscription in the set that is open at that moment, and to no
\* subscription that is closing or closed or not in the set.
C21_FanOutToOpenMembers ==
    [][\A c \in Conns :
          (reqs[c].pc = "broadcast" /\ reqs'[c].pc = "done" /\ reqs'[c].result = "200")
          => \A s \in Sockets :
                sockets'[s].inbox = IF Receiving(s)
                                    THEN Append(sockets[s].inbox, Emits(c))
                                    ELSE sockets[s].inbox]_vars

C21_Witness ==
    \E c \in Conns : \E s, t \in Sockets :
        /\ Done(c) /\ reqs[c].result = "200" /\ reqs[c].events # NoEvent
        /\ s # t /\ s \in wsClients /\ t \in wsClients
        /\ sockets[s].readyState = "OPEN" /\ sockets[s].inbox = reqs[c].events
        /\ sockets[t].readyState = "CLOSING" /\ sockets[t].inbox = <<>>

\* C22: a mutation request that fails (any answer other than 200) has
\* broadcast nothing: no subscription receives a message in the step that
\* answers it, and the request has emitted no event before.
C22_FailureEmitsNothing ==
    [][\A c \in Conns :
          (reqs'[c] # reqs[c] /\ reqs'[c].pc = "done" /\ reqs'[c].result # "200")
          => /\ reqs'[c].events = NoEvent
             /\ \A s \in Sockets : sockets'[s] = sockets[s]]_vars

C22_Witness ==
    \E c \in Conns :
        /\ reqs[c].kind = "report" /\ Done(c) /\ reqs[c].result = "500"
        /\ reqs[c].roomId \notin DOMAIN rooms /\ reqs[c].arg = "ok"
        /\ \A s \in Sockets : Receiving(s) /\ sockets[s].inbox = <<>>

\* C23: when a write to one subscription fails during a broadcast, the request
\* still answers 200, every other open subscription receives the event, and
\* the subscription whose write failed is removed from the broadcast set.
C23_WriteFailureDropsSubscriber ==
    /\ [][\A c \in Conns :
            (reqs[c].pc = "broadcast" /\ reqs'[c].pc = "done"
                /\ \E f \in wsClients :
                      sockets[f].readyState = "OPEN" /\ sockets[f].broken)
            => /\ reqs'[c].result = "200"
               /\ \A s \in Sockets :
                    Receiving(s) => sockets'[s].inbox = Append(sockets[s].inbox, Emits(c))]_vars
    /\ \A s \in Sockets : sockets[s].failed ~> s \notin wsClients

C23_Witness ==
    \E c \in Conns : \E s, t \in Sockets :
        /\ Done(c) /\ reqs[c].result = "200"
        /\ sockets[s].failed /\ s \notin wsClients /\ sockets[s].inbox = <<>>
        /\ Receiving(t) /\ sockets[t].inbox = reqs[c].events /\ reqs[c].events # NoEvent

\* C24: the step in which a subscription reports error or close removes it
\* from the broadcast set, and a subscription that has been removed is never
\* added again and never receives another message.
C24_ClosedSubscriberGetsNothing ==
    [][\A s \in Sockets :
          /\ (\/ sockets[s].readyState = "OPEN" /\ sockets[s].broken
                   /\ sockets'[s].readyState = "CLOSING"
              \/ sockets[s].readyState = "CLOSING" /\ sockets'[s].readyState = "CLOSED")
             => s \notin wsClients'
          /\ (sockets[s].readyState # "CONNECTING" /\ s \notin wsClients)
             => (s \notin wsClients' /\ sockets'[s].inbox = sockets[s].inbox)]_vars

C24_Witness ==
    \E s, t \in Sockets :
        /\ sockets[s].readyState = "CLOSED" /\ s \notin wsClients
        /\ ~sockets[s].broken
        /\ Len(sockets[s].inbox) = 1
        /\ Receiving(t) /\ Len(sockets[t].inbox) = 2

\* C25: concurrent permitted status changes of one room are serialized with no
\* lost update: the step that applies a change stores its target in full and
\* returns a room record showing that target, and the stored status changes
\* in no other step, so it is always the target of the change applied last.
C25_NoLostUpdate ==
    [][/\ \A c \in Conns :
            (Returns(c, "status", "update") /\ reqs'[c].pc = "broadcast"
                /\ reqs[c].roomId \in DOMAIN rooms)
            => /\ rooms'[reqs[c].roomId].status = reqs[c].arg
               /\ reqs'[c].room.status = reqs[c].arg
               /\ reqs'[c].room = rooms'[reqs[c].roomId]
       /\ \A r \in DOMAIN rooms :
            rooms'[r] # rooms[r]
            => \E c \in Conns :
                  /\ Returns(c, "status", "update") /\ reqs[c].roomId = r
                  /\ rooms'[r].status = reqs[c].arg]_vars

C25_Witness ==
    \E c, d \in Conns :
        /\ c # d /\ reqs[c].kind = "status" /\ reqs[d].kind = "status"
        /\ Done(c) /\ Done(d) /\ reqs[d].overlap
        /\ reqs[c].result = "200" /\ reqs[d].result = "200"
        /\ reqs[c].roomId = reqs[d].roomId /\ reqs[c].arg # reqs[d].arg
        /\ rooms[reqs[c].roomId].status = reqs[c].arg
        /\ reqs[c].room.status = reqs[c].arg
        /\ reqs[d].room.status = reqs[d].arg

\* the room a request in flight works on: the room in its path or body, or
\* the room of the session or checklist row its id names
TargetRoom(c) ==
    LET req == reqs[c]
    IN IF req.kind = "session"
       THEN IF req.sid \in 1..Len(cleaningSessions)
            THEN cleaningSessions[req.sid].roomId ELSE NoRoom
       ELSE IF req.kind = "checklist" /\ req.pc = "update"
       THEN IF req.sid \in 1..Len(checklistCompletions)
            THEN checklistCompletions[req.sid].roomId ELSE NoRoom
       ELSE req.roomId

SessionsOf(ss, roomId) == {i \in 1..Len(ss) : ss[i].roomId = roomId}

\* rows another room could hold instead of its own
OtherRows ==
    [status : {"dirty", "clean", "cleaning"}, assignedTo : {"ana", "supA"}, updatedAt : {0}]

Listed(c) == Done(c) /\ reqs[c].kind = "list" /\ reqs[c].result = "200"

AssignedTo(u) == {r \in DOMAIN rooms : rooms[r].assignedTo = u}

\* C28 as stated: the list-rooms query returns all rooms to a user whose
\* stored role is manager and, to every other authenticated user, only the
\* rooms assigned to that user, whatever query parameters are supplied.
C28_ManagerGetsAllRooms ==
    \A c \in Conns :
        Listed(c) =>
            IF StoredRole(reqs[c].cred) = "manager"
            THEN reqs[c].rows = DOMAIN rooms
            ELSE reqs[c].rows = AssignedTo(reqs[c].cred.sub)

\* C28 amended: a manager gets all rooms unless the query names a staff
\* member in assignedTo, and then gets exactly the rooms assigned to that
\* member; every other authenticated user gets only the rooms assigned to
\* that user, whatever query parameters are supplied.
C28_ManagerMayFilter ==
    \A c \in Conns :
        Listed(c) =>
            IF StoredRole(reqs[c].cred) = "manager"
            THEN IF reqs[c].arg = ""
                 THEN reqs[c].rows = DOMAIN rooms
                 ELSE reqs[c].rows = AssignedTo(reqs[c].arg)
            ELSE reqs[c].rows = AssignedTo(reqs[c].cred.sub)

\* housekeeper ana asked for the rooms of supervisor supA and got her own
C28_Witness ==
    /\ Listed("c1")
    /\ reqs["c1"].cred.sub = "ana" /\ reqs["c1"].arg = "supA"
    /\ reqs["c1"].rows = {"101"}
    /\ AssignedTo("supA") = {"102"}

\* a mutation that was answered with success
Accepted(c) == Done(c) /\ reqs[c].result = "200"

\* the type and the action discriminator of the event of each mutating route
EventOf(kind) ==
    IF kind = "status" THEN <<"room_status_update", "">>
    ELSE IF kind = "start" THEN <<"timer_update", "start">>
    ELSE IF kind = "session" THEN <<"timer_update", "update">>
    ELSE IF kind = "save" THEN <<"checklist_update", "save">>
    ELSE IF kind = "checklist" THEN <<"checklist_update", "update">>
    ELSE <<"problem_report", "create">>

\* the event carries the entity the mutation updated: the room row with its
\* id and new status, or the session or checklist row the id names
CarriesEntity(c) ==
    LET req == reqs[c]
        e == req.events[1]
    IN IF req.kind = "status"
       THEN /\ e.roomId = req.roomId /\ e.status = req.arg
            /\ req.roomId \in DOMAIN rooms
            /\ req.room # Undefined /\ req.room.status = req.arg
       ELSE IF req.kind \in {"start", "session"}
       THEN e.sid = req.sid /\ req.sid \in 1..Len(cleaningSessions)
       ELSE IF req.kind \in {"save", "checklist"}
       THEN e.sid = req.sid /\ req.sid \in 1..Len(checklistCompletions)
       ELSE e.roomId = req.roomId /\ req.roomId \in DOMAIN rooms

\* C27: each accepted mutation emits one event of the matching type and
\* action that carries the updated entity: room_status_update with the room
\* id, the new status and the updated room for a status change, timer_update
\* start or update for sessions, checklist_update save or update for
\* checklists, problem_report create for reports.
C27_OneEventWithEntity ==
    \A c \in Conns :
        (Accepted(c) /\ reqs[c].kind \in {"status", "start", "session", "save",
                                          "checklist", "report"}) =>
            /\ Len(reqs[c].events) = 1
            /\ <<reqs[c].events[1].type, reqs[c].events[1].action>> = EventOf(reqs[c].kind)
            /\ CarriesEntity(c)

\* the checklist row a save or an update was answered with
Answered(c) == checklistCompletions[reqs[c].sid]

\* C29: a checklist completion is finalized, and its room moved to clean,
\* only when all its items are true and a supervisor signature is present;
\* whenever a checklist is finalized its room's status becomes clean and a
\* checklist_update event is broadcast.
C29_FinalizeNeedsAllItems ==
    \A c \in Conns :
        (Accepted(c) /\ reqs[c].kind \in {"save", "checklist"}
            /\ Answered(c).isCompleted) =>
                /\ Answered(c).allItems /\ Answered(c).signed
                /\ rooms[Answered(c).roomId].status = "clean"
                /\ Len(reqs[c].events) = 1
                /\ reqs[c].events[1].type = "checklist_update"

\* C30: after an abnormal close the hook retries with a delay that grows
\* between consecutive attempts (each delay larger than the one before, the
\* least that exponential growth means), and it makes at most
\* maxReconnectAttempts consecutive attempts without a successful open: no
\* further timer is set since the last open.
C30_BackoffGrows ==
    /\ \A i \in 1..(Len(hook.delays) - 1) : hook.delays[i + 1] > hook.delays[i]
    /\ hook.reconnectAttempts <= maxReconnectAttempts
    /\ Len(hook.delays) = hook.reconnectAttempts

\* C31: every session's status is one of active, paused, completed: no
\* request the session-update route accepts stores another value.
C31_SessionStatusInEnum ==
    \A i \in 1..Len(cleaningSessions) : cleaningSessions[i].status \in SessionStatuses

\* C37: a session-update request never changes the session's id, roomId,
\* housekeeperId or startTime, and never changes any room's status.
C37_SessionUpdateFrame ==
    [][\A c \in Conns :
          (reqs[c].kind = "session" /\ InFlight(c) /\ reqs'[c] # reqs[c]) =>
              /\ Len(cleaningSessions') = Len(cleaningSessions)
              /\ \A i \in 1..Len(cleaningSessions) :
                    /\ cleaningSessions'[i].roomId = cleaningSessions[i].roomId
                    /\ cleaningSessions'[i].housekeeperId = cleaningSessions[i].housekeeperId
                    /\ cleaningSessions'[i].startTime = cleaningSessions[i].startTime
              /\ \A r \in DOMAIN rooms : rooms'[r].status = rooms[r].status]_vars

\* the elapsed seconds of a session at the instant it was last paused
ElapsedAtPause(i) ==
    ((timeline[i].pausedAt - cleaningSessions[i].startTime) \div 1000)
        + cleaningSessions[i].pausedTime

\* C32: while a session is paused its elapsed time does not accrue: the
\* totalTime sealed when it is completed while paused, which is the elapsed
\* value the client computes at that instant of the pause, equals the
\* elapsed value at the instant of the pause.
C32_PausedTimeDoesNotAccrue ==
    \A c \in Conns :
        (Accepted(c) /\ reqs[c].kind = "session" /\ reqs[c].arg = "completed"
            /\ reqs[c].was = "paused" /\ reqs[c].sid \in 1..Len(cleaningSessions)
            /\ timeline[reqs[c].sid].pausedAt # NoTime) =>
                cleaningSessions[reqs[c].sid].totalTime = ElapsedAtPause(reqs[c].sid)

\* the query keys of rooms, sessions, checklists and problem reports
AllQueryKeys == UNION {QueryKeys(type) : type \in MessageTypes}

\* C33: a successful reconnect of the real-time channel makes the client
\* re-fetch current state: the open that follows a retry invalidates the
\* queries of rooms, sessions, checklists and problem reports, so that what
\* was broadcast while it was disconnected becomes visible.
C33_ReconnectRefetches ==
    [][(hook.socket = "connecting" /\ hook.reconnectAttempts > 0
            /\ hook'.socket = "open")
        => AllQueryKeys \subseteq hook'.invalid]_vars

\* no handler is between its arrival and its response
Quiet == \A c \in Conns : ~InFlight(c)

\* C34: when status changes of one room interleave, a subscriber gets their
\* room_status_update events in the order the updates were applied to the
\* store: once the handlers have answered, the last event in the
\* subscriber's inbox carries the room's stored status.
C34_LastEventIsStoredStatus ==
    \A s \in Sockets :
        (Quiet /\ Receiving(s) /\ sockets[s].inbox # <<>>) =>
            LET last == sockets[s].inbox[Len(sockets[s].inbox)]
            IN last.type = "room_status_update" =>
                  last.status = rooms[last.roomId].status

\* the rows a request of each route writes before it broadcasts: the insert
\* and the room's status for a start and a report, one row otherwise, and
\* the room's status as well for a checklist that is completed and signed
WritesOf(c) ==
    IF reqs[c].kind \in {"start", "report"} THEN 2
    ELSE IF reqs[c].kind = "checklist" /\ reqs[c].room # Undefined THEN 2
    ELSE 1

\* C35: on every mutating route the event is broadcast only after the store
\* mutations of the request have completed and the success response is sent
\* only after the broadcast: a request that has emitted its event has written
\* its rows, and no event is delivered for a mutation that was not applied.
C35_BroadcastAfterMutation ==
    \A c \in Conns :
        /\ reqs[c].events # NoEvent => reqs[c].writes = WritesOf(c)
        /\ (Accepted(c) /\ reqs[c].kind \in {"status", "start", "session", "save",
                                             "checklist", "report"})
              => reqs[c].events # NoEvent

\* the server was handed the socket by a 'connection' event
Connected(socks, s) == socks[s].readyState # "CONNECTING"

\* the socket has reported 'error' (it is closing over a failed transport)
\* or 'close'
Reported(socks, s) ==
    \/ socks[s].readyState = "CLOSED"
    \/ socks[s].readyState = "CLOSING" /\ socks[s].broken

\* C36: the broadcast set holds exactly the connections that were accepted
\* and have not yet reported close or error; a step adds only the connection
\* it accepts and removes only the one that reports, the close that follows
\* an error leaves the set as it is, and a broadcast writes to no socket
\* that is not an open member.
C36_SetIsLiveConnections ==
    /\ [](wsClients = {s \in Sockets : Connected(sockets, s) /\ ~Reported(sockets, s)})
    /\ [][\A s \in Sockets :
            /\ (s \in wsClients' \ wsClients) =>
                    (~Connected(sockets, s) /\ Connected(sockets', s))
            /\ (Reported(sockets, s) /\ sockets'[s] # sockets[s]) =>
                    (wsClients' = wsClients /\ sockets'[s].readyState = "CLOSED")
            /\ (sockets'[s].inbox # sockets[s].inbox \/ sockets'[s].failed # sockets[s].failed)
                    => (s \in wsClients /\ sockets[s].readyState = "OPEN")]_vars

\* w1 reported an error and then its close and is out of the set, while w2
\* is still a member and has received an event
C36_Witness ==
    /\ sockets["w1"].readyState = "CLOSED" /\ sockets["w1"].broken
    /\ "w1" \notin wsClients
    /\ wsClients = {"w2"} /\ sockets["w2"].inbox # <<>>

\* C38: whenever a room has a session that is active or paused the room's
\* status is cleaning (between requests): no direct status change, problem
\* report or checklist finalize moves the room out of cleaning while its
\* session is not completed.
C38_OpenSessionMeansCleaning ==
    Quiet =>
        \A r \in DOMAIN rooms :
            getActiveCleaningSession(cleaningSessions, r) # {}
                => rooms[r].status = "cleaning"

\* C39: logging in never changes the stored role of a user who already has a
\* record: whatever the claims of a login, every existing row keeps its role,
\* on the id-match path and on the email-conflict path of the upsert.
C39_LoginKeepsStoredRole ==
    [][\A u \in DOMAIN users :
            u \in DOMAIN users' /\ users'[u].role = users[u].role]_vars

\* C40: in the client's hook a close with code 1000 or an unmount never leads
\* to a reconnect: a close with code 1000 sets no timer, after the cleanup no
\* reconnect timer is pending and no new socket is opened, and a successful
\* open resets the consecutive-attempt counter to 0.
C40_NoReconnectAfterCleanup ==
    /\ [](~hook.mounted => (~hook.timer /\ hook.socket \notin {"connecting", "open"}))
    /\ [][/\ HookClose(1000) => ~hook'.timer
          /\ (hook.socket = "connecting" /\ hook'.socket = "open")
                => hook'.reconnectAttempts = 0]_vars

====
